---- MODULE Spec2Model ----
(***************************************************************************)
(* Gregorian -> Javanese calendar conversion (src/src/javanese-calendar.ts) *)
(* as a state machine.  An instant is counted in whole hours relative to    *)
(* the epoch anchor 1867-03-04T17:00:00.000Z; the caller's timezone is an   *)
(* hour offset from UTC.  toJavanese runs step by step (one action per      *)
(* loop iteration) so that the intermediate values of its loops are states. *)
(* A second specification, SpecYears, applies the three helper functions    *)
(* to every year 1..MaxYear.                                                *)
(***************************************************************************)
EXTENDS Integers, Sequences, FiniteSets, TLC

\* ------------------------------------------------------------------ bounds
\* Last whole day after the epoch anchor an input instant may fall on.
MaxDay == 2900
\* Number of whole days before the epoch anchor an input instant may fall on.
PreEpochDays == 9
\* Largest year the helper functions are applied to in SpecYears.
MaxYear == 1810

\* --------------------------------------------------------------- constants
MsPerDay == 86400000
MsPerHour == 60 * 60 * 1000
HoursPerDay == MsPerDay \div MsPerHour
\* new Date('1867-03-04T17:00:00.000Z'): hour of the UTC day, and the UTC
\* day-of-week of 1867-03-04 (a Monday; 0 = Sunday).
EpochHourUtc == 17
EpochUtcDow == 1
EpochYear == 1795

Undefined == "undefined"

DINTEN == <<"Ahad", "Senin", "Selasa", "Rabu", "Kamis", "Jumat", "Sabtu">>
PASARAN == <<"Kliwon", "Legi", "Pahing", "Pon", "Wage">>
WULAN == <<"Sura", "Sapar", "Mulud", "Bakda Mulud", "Jumadil Awal",
           "Jumadil Akhir", "Rejeb", "Ruwah", "Pasa", "Sawal", "Sela", "Besar">>
WUKU == <<"Sinta", "Landep", "Wukir", "Kurantil", "Tolu", "Gumbreg",
          "Warigalit", "Warigagung", "Julungwangi", "Sungsang", "Galungan",
          "Kuningan", "Langkir", "Mandasiya", "Julungpujut", "Pahang",
          "Kuruwelut", "Marakeh", "Tambir", "Medangkungan", "Maktal",
          "Wuye", "Manahil", "Prangbakat", "Bala", "Wugu", "Wayang",
          "Kulawu", "Dukut", "Watugunung">>

\* ------------------------------------------------------------------ inputs
\* Hours of the day sampled for an input instant: first and last hour.
SampleHours == {0, HoursPerDay - 1}
\* UTC offsets (hours) of the caller's timezone: the two extremes and UTC+7,
\* the zone in which the epoch anchor is local midnight.
TimezoneOffsets == {-12, 7, 14}
Instants == {d * HoursPerDay + h : d \in (-PreEpochDays)..MaxDay, h \in SampleHours}
\* Day increments the caller applies between two conversions.
DayIncrements == {1, 5}

\* ------------------------------------------------------- JavaScript values
\* a % b of JavaScript: the remainder takes the sign of the dividend.
JsRem(a, b) == IF a >= 0 THEN a % b ELSE -((-a) % b)
\* Math.floor(a / b) and Math.ceil(a / b) for integers a and b > 0.
MathFloorDiv(a, b) == a \div b
MathCeilDiv(a, b) == -((-a) \div b)
\* table[i] of a JavaScript array: undefined outside 0..length-1.
Lookup(table, i) == IF i \in 0..(Len(table) - 1) THEN table[i + 1] ELSE Undefined

\* --------------------------------------------------------- helper functions
Cycle_Floor(year) == MathFloorDiv(year - 1, 8)
\* line 90: const cycle = Math.ceil((year - 1) / 8)
Cycle(year) == MathCeilDiv(year - 1, 8)

\* line 91: const yearInCycle = year - (cycle - 1) * 8
YearInCycle(year) == year - (Cycle(year) - 1) * 8

\* line 92: [2, 5, 8].includes(yearInCycle)
isJavaneseLeapYear(year) == YearInCycle(year) \in {2, 5, 8}

getDaysInJavaneseMonth_NoLeap(year, month) == IF month % 2 = 1 THEN 30 ELSE 29
getDaysInJavaneseMonth(year, month) ==
    IF month = 12 /\ isJavaneseLeapYear(year)
    THEN 30
    ELSE IF JsRem(month, 2) = 1 THEN 30 ELSE 29

getTotalDaysInJavaneseYear_NoLeap(year) == 354
getTotalDaysInJavaneseYear(year) == IF isJavaneseLeapYear(year) THEN 355 ELSE 354

\* ------------------------------------------------------ pieces of toJavanese
ElapsedDays_Trunc(date) ==
    IF date >= 0 THEN date \div HoursPerDay ELSE -((-date) \div HoursPerDay)
\* line 123: Math.floor((date.getTime() - epoch.getTime()) / 86400000); the
\* difference is date hours, and 86400000 ms are HoursPerDay hours
ElapsedDays(date) == MathFloorDiv(date, HoursPerDay)

\* line 141: date.getDay(), the day-of-week of the local calendar day
getDay(date, tz) ==
    (EpochUtcDow + MathFloorDiv(date + EpochHourUtc + tz, HoursPerDay)) % 7

DayOfMonth_ZeroBased(offset) == offset
\* line 140: const day = julianDay + 1
DayOfMonth(offset) == offset + 1

\* line 143: const pasaranDay = (dayOfWeek + 1) % 5
PasaranDay(dayOfWeek) == JsRem(dayOfWeek + 1, 5)

WukuDay_NoShift(offset) == JsRem(MathFloorDiv(offset, 7), 30)
\* line 144: const wukuDay = Math.floor((julianDay + 1) / 7) % 30
WukuDay(offset) == JsRem(MathFloorDiv(offset + 1, 7), 30)

\* lines 146-160: the returned object
JavaneseDate(y, m, offset, dayOfWeek) ==
    [year      |-> y,
     month     |-> m,
     day       |-> DayOfMonth(offset),
     monthName |-> Lookup(WULAN, m - 1),
     dayName   |-> Lookup(DINTEN, dayOfWeek),
     pasaran   |-> [day  |-> PasaranDay(dayOfWeek),
                    name |-> Lookup(PASARAN, PasaranDay(dayOfWeek))],
     wuku      |-> [day  |-> WukuDay(offset),
                    name |-> Lookup(WUKU, WukuDay(offset))]]

\* No object: the value of result and previous before a call has returned.
NoDate ==
    [year |-> 0, month |-> 0, day |-> 0, monthName |-> "", dayName |-> "",
     pasaran |-> [day |-> -1, name |-> ""], wuku |-> [day |-> -1, name |-> ""]]

\* ------------------------------------------------------------------- state
VARIABLES
    date,        \* the input instant, hours relative to the epoch anchor
    tz,          \* the caller's UTC offset, hours
    pc,          \* position in toJavanese / in the helper run
    julianDay,   \* let julianDay
    year,        \* let year
    daysInYear,  \* let daysInYear
    month,       \* let month
    daysInMonth, \* let daysInMonth
    result,      \* the object toJavanese returned
    previous,    \* the object the preceding call returned
    increment,   \* days between the preceding call's date and this one's
    argYear,     \* SpecYears: the year the helpers are applied to
    cycle,       \* SpecYears: cycle of isJavaneseLeapYear(argYear)
    yearInCycle, \* SpecYears: yearInCycle of isJavaneseLeapYear(argYear)
    leap,        \* SpecYears: isJavaneseLeapYear(argYear)
    total,       \* SpecYears: getTotalDaysInJavaneseYear(argYear)
    argMonth,    \* SpecYears: last month getDaysInJavaneseMonth was applied to
    monthSum     \* SpecYears: sum of getDaysInJavaneseMonth(argYear, 1..argMonth)

locals == <<julianDay, year, daysInYear, month, daysInMonth>>
helperVars == <<argYear, cycle, yearInCycle, leap, total, argMonth, monthSum>>
vars == <<date, tz, pc, locals, result, previous, increment, helperVars>>

\* --------------------------------------------------------------- toJavanese
Init ==
    /\ date \in Instants
    /\ tz \in TimezoneOffsets
    /\ pc = "call"
    /\ julianDay = 0 /\ year = 0 /\ daysInYear = 0 /\ month = 0 /\ daysInMonth = 0
    /\ result = NoDate
    /\ previous = NoDate
    /\ increment = 0
    /\ argYear = 0 /\ cycle = 0 /\ yearInCycle = 0 /\ leap = FALSE
    /\ total = 0 /\ argMonth = 0 /\ monthSum = 0

\* lines 123-125
Enter ==
    /\ pc = "call"
    /\ julianDay' = ElapsedDays(date)
    /\ year' = EpochYear
    /\ daysInYear' = getTotalDaysInJavaneseYear(EpochYear)
    /\ pc' = "yearLoop"
    /\ UNCHANGED <<date, tz, month, daysInMonth, result, previous, increment, helperVars>>

YearLoopBody_SubtractNext ==
    /\ pc = "yearLoop"
    /\ julianDay >= daysInYear
    /\ julianDay' = julianDay - getTotalDaysInJavaneseYear(year + 1)
    /\ year' = year + 1
    /\ daysInYear' = getTotalDaysInJavaneseYear(year + 1)
    /\ UNCHANGED <<date, tz, pc, month, daysInMonth, result, previous, increment, helperVars>>
\* lines 126-130, one iteration
YearLoopBody ==
    /\ pc = "yearLoop"
    /\ julianDay >= daysInYear
    /\ julianDay' = julianDay - daysInYear
    /\ year' = year + 1
    /\ daysInYear' = getTotalDaysInJavaneseYear(year + 1)
    /\ UNCHANGED <<date, tz, pc, month, daysInMonth, result, previous, increment, helperVars>>

\* line 126 guard false, then lines 132-133
YearLoopExit ==
    /\ pc = "yearLoop"
    /\ ~(julianDay >= daysInYear)
    /\ month' = 1
    /\ daysInMonth' = getDaysInJavaneseMonth(year, 1)
    /\ pc' = "monthLoop"
    /\ UNCHANGED <<date, tz, julianDay, year, daysInYear, result, previous, increment, helperVars>>

\* lines 134-138, one iteration
MonthLoopBody ==
    /\ pc = "monthLoop"
    /\ julianDay >= daysInMonth
    /\ julianDay' = julianDay - daysInMonth
    /\ month' = month + 1
    /\ daysInMonth' = getDaysInJavaneseMonth(year, month + 1)
    /\ UNCHANGED <<date, tz, pc, year, daysInYear, result, previous, increment, helperVars>>

\* line 134 guard false, then lines 140-160
MonthLoopExit ==
    /\ pc = "monthLoop"
    /\ ~(julianDay >= daysInMonth)
    /\ result' = JavaneseDate(year, month, julianDay, getDay(date, tz))
    /\ pc' = "done"
    /\ UNCHANGED <<date, tz, locals, previous, increment, helperVars>>

\* The caller converts the date k days later (index.ts, generateJavaneseTimestamp).
generateJavaneseTimestamp(k) ==
    /\ pc = "done"
    /\ date + k * HoursPerDay \in Instants
    /\ date' = date + k * HoursPerDay
    /\ previous' = result
    /\ increment' = k
    /\ result' = NoDate
    /\ julianDay' = 0 /\ year' = 0 /\ daysInYear' = 0 /\ month' = 0 /\ daysInMonth' = 0
    /\ pc' = "call"
    /\ UNCHANGED <<tz, helperVars>>

Next ==
    \/ Enter
    \/ YearLoopBody
    \/ YearLoopExit
    \/ MonthLoopBody
    \/ MonthLoopExit
    \/ \E k \in DayIncrements : generateJavaneseTimestamp(k)

Spec == Init /\ [][Next]_vars

\* ------------------------------------------------- the helpers, year by year
InitYears ==
    /\ argYear \in 1..MaxYear
    /\ pc = "leap"
    /\ cycle = 0 /\ yearInCycle = 0 /\ leap = FALSE
    /\ total = 0 /\ argMonth = 0 /\ monthSum = 0
    /\ date = 0 /\ tz = 0
    /\ julianDay = 0 /\ year = 0 /\ daysInYear = 0 /\ month = 0 /\ daysInMonth = 0
    /\ result = NoDate /\ previous = NoDate /\ increment = 0

\* isJavaneseLeapYear(argYear), lines 89-93
CallIsJavaneseLeapYear ==
    /\ pc = "leap"
    /\ cycle' = Cycle(argYear)
    /\ yearInCycle' = YearInCycle(argYear)
    /\ leap' = isJavaneseLeapYear(argYear)
    /\ pc' = "total"
    /\ UNCHANGED <<date, tz, locals, result, previous, increment, argYear, total, argMonth, monthSum>>

\* getTotalDaysInJavaneseYear(argYear), lines 113-115
CallGetTotalDaysInJavaneseYear ==
    /\ pc = "total"
    /\ total' = getTotalDaysInJavaneseYear(argYear)
    /\ pc' = "months"
    /\ UNCHANGED <<date, tz, locals, result, previous, increment, argYear, cycle, yearInCycle, leap, argMonth, monthSum>>

\* getDaysInJavaneseMonth(argYear, m) for m = 1..12 in turn, lines 101-106
CallGetDaysInJavaneseMonth ==
    /\ pc = "months"
    /\ argMonth < 12
    /\ argMonth' = argMonth + 1
    /\ monthSum' = monthSum + getDaysInJavaneseMonth(argYear, argMonth + 1)
    /\ pc' = IF argMonth + 1 = 12 THEN "summed" ELSE "months"
    /\ UNCHANGED <<date, tz, locals, result, previous, increment, argYear, cycle, yearInCycle, leap, total>>

NextYears ==
    \/ CallIsJavaneseLeapYear
    \/ CallGetTotalDaysInJavaneseYear
    \/ CallGetDaysInJavaneseMonth

SpecYears == InitYears /\ [][NextYears]_vars

\* ------------------------------------------------- the calendar as specified
\* Whole days from the epoch anchor to the input instant.
InputElapsedDays == date \div HoursPerDay
\* Position of a year in its 8-year cycle, cycles tiling from year 1.
PositionInCycle(y) == ((y - 1) % 8) + 1
LeapYear(y) == PositionInCycle(y) \in {2, 5, 8}
MonthLength(y, m) == IF m = 12 /\ LeapYear(y) THEN 30 ELSE IF m % 2 = 1 THEN 30 ELSE 29
YearLength(y) == IF LeapYear(y) THEN 355 ELSE 354

RECURSIVE SumYearLengths(_, _)
SumYearLengths(from, to) ==
    IF from > to THEN 0 ELSE YearLength(from) + SumYearLengths(from + 1, to)

RECURSIVE SumMonthLengths(_, _)
SumMonthLengths(y, upTo) ==
    IF upTo < 1 THEN 0 ELSE MonthLength(y, upTo) + SumMonthLengths(y, upTo - 1)

\* b is the calendar date that follows a.
NextCalendarDate(a, b) ==
    \/ b.year = a.year /\ b.month = a.month /\ b.day = a.day + 1
    \/ /\ b.year = a.year /\ b.month = a.month + 1 /\ b.day = 1
       /\ a.day = MonthLength(a.year, a.month)
    \/ /\ b.year = a.year + 1 /\ b.month = 1 /\ b.day = 1
       /\ a.month = 12 /\ a.day = MonthLength(a.year, 12)

Returned == pc = "done"
HelpersApplied == pc \in {"total", "months", "summed"}

\* ------------------------------------------------------------------ claims
\* C1: for an instant at or after the epoch anchor the month stays in 1..12
\* throughout the month loop, and the result has 1 <= month <= 12 and
\* 1 <= day <= daysInMonth(year, month).
C1_DateInRange ==
    InputElapsedDays >= 0 =>
        /\ pc = "monthLoop" => month \in 1..12
        /\ Returned =>
            /\ result.month \in 1..12
            /\ result.day \in 1..MonthLength(result.year, result.month)
C1_Witness ==
    Returned /\ LeapYear(result.year) /\ result.month = 12 /\ result.day = 30

\* C2: a date 5 days later has the same pasaran (day and name); a date 1 day
\* later has pasaran.day advanced by one modulo 5.
C2_PasaranCycle ==
    /\ (Returned /\ increment = 5) => result.pasaran = previous.pasaran
    /\ (Returned /\ increment = 1) =>
           result.pasaran.day = (previous.pasaran.day + 1) % 5

\* C3: for every instant, before the epoch too, pasaran.day is in 0..4 and
\* wuku.day in 0..29, each paired with the name at that index, and no table
\* lookup is out of range.
C3_LookupsInRange ==
    Returned =>
        /\ result.pasaran.day \in 0..4
        /\ result.wuku.day \in 0..29
        /\ result.pasaran.name = PASARAN[result.pasaran.day + 1]
        /\ result.wuku.name = WUKU[result.wuku.day + 1]
        /\ result.monthName # Undefined
        /\ result.dayName # Undefined

\* C4: isJavaneseLeapYear(y) is true exactly when ((y-1) mod 8) + 1 is 2, 5
\* or 8, and the 8 years starting at y contain exactly 3 leap years.
C4_LeapRule ==
    HelpersApplied =>
        /\ leap = LeapYear(argYear)
        /\ Cardinality({y \in argYear..(argYear + 7) : isJavaneseLeapYear(y)}) = 3
C4_Witness == HelpersApplied /\ argYear = 16 /\ leap

\* C5: the month lengths of a year sum to getTotalDaysInJavaneseYear(year),
\* which is 355 in a leap year and 354 otherwise.
C5_MonthSum ==
    pc = "summed" =>
        /\ monthSum = total
        /\ total = IF LeapYear(argYear) THEN 355 ELSE 354
C5_Witness == pc = "summed" /\ leap /\ monthSum = 355

\* C6: the instant exactly at the epoch anchor resolves to 1795-01-01.
C6_EpochFixedPoint ==
    (Returned /\ date = 0) =>
        result.year = 1795 /\ result.month = 1 /\ result.day = 1
C6_Witness == Returned /\ date = 0 /\ result.day = 1

\* C7: for an instant before the epoch anchor no loop body runs (julianDay,
\* year and month keep their initial values) and the result has year 1795,
\* month 1 and day = elapsedDays + 1 <= 0.
C7_PreEpoch ==
    InputElapsedDays < 0 =>
        /\ pc \in {"yearLoop", "monthLoop", "done"} =>
               julianDay = InputElapsedDays /\ year = 1795
        /\ pc \in {"monthLoop", "done"} => month = 1
        /\ Returned =>
            /\ result.year = 1795
            /\ result.month = 1
            /\ result.day = InputElapsedDays + 1
            /\ result.day <= 0
C7_Witness == Returned /\ date = -1 /\ result.day = 0 /\ result.month = 1

\* C8: for an instant at or after the epoch anchor, elapsedDays is the sum
\* of the year lengths from 1795 to year-1, plus the month lengths of months
\* 1..month-1, plus day-1; and the date one day later resolves to the next
\* calendar date.
C8_Reconstruct ==
    (Returned /\ InputElapsedDays >= 0) =>
        /\ InputElapsedDays =
               SumYearLengths(1795, result.year - 1)
               + SumMonthLengths(result.year, result.month - 1)
               + (result.day - 1)
        /\ (increment = 1 /\ InputElapsedDays >= 1) =>
               NextCalendarDate(previous, result)
C8_Witness ==
    /\ Returned /\ increment = 1
    /\ previous.year = 1797 /\ previous.month = 12 /\ previous.day = 30
    /\ result.year = 1798 /\ result.month = 1 /\ result.day = 1

\* C9: for every year >= 1, cycle = ceil((year-1)/8) and
\* yearInCycle = year - (cycle-1)*8 is an integer in 1..8.
C9_YearInCycleRange ==
    HelpersApplied =>
        /\ cycle = -((-(argYear - 1)) \div 8)
        /\ yearInCycle = argYear - (cycle - 1) * 8
        /\ yearInCycle \in 1..8

\* C10: wuku.day is floor(day / 7) mod 30 of the resolved day-of-month, so
\* it depends on nothing else, and at or after the epoch it is in 0..4.
C10_WukuFromDayOfMonth ==
    Returned =>
        /\ result.wuku.day = JsRem(result.day \div 7, 30)
        /\ InputElapsedDays >= 0 =>
            /\ result.wuku.day = (result.day \div 7) % 30
            /\ result.wuku.day \in 0..4
C10_Witness ==
    Returned /\ result.year = 1796 /\ result.day = 28 /\ result.wuku.day = 4
====
